---------------------------- MODULE Spec2Model ----------------------------
(***************************************************************************)
(* A model of SetlistPDFExporter (src/pdfexportmodule.js): the progressive *)
(* text shortener, the font-size search, the stage-view composer and the   *)
(* export entry point with the state it leaves behind.                     *)
(*                                                                         *)
(* Strings are sequences of characters; a character is an atom written as  *)
(* a one-letter string, and an accented character is named ("c_caron").    *)
(*                                                                         *)
(* Font sizes are carried in tenths of a point (34.8pt is 348), lengths on *)
(* the page in units of 1/250000 mm, so that every product of the source   *)
(* (size * 0.3528 * 1.05, ...) is an integer: 0.3528 * 1.05 = 9261/250000. *)
(* No comparison of the source is an exact tie in these units (estimated   *)
(* heights are multiples of 27 and 261mm is not; stage cursors are 23mm    *)
(* plus a multiple of 9 and 266mm is no multiple of 3; organizer rows are  *)
(* multiples of 49 and neither 248mm nor 231mm is), so the exact           *)
(* arithmetic decides each comparison as the floating point one.           *)
(*                                                                         *)
(* Text widths come from the drawing surface (jsPDF's getTextWidth). The   *)
(* model's oracle is additive: a unit width per character, times the font  *)
(* size, in units of 1/100 mm per tenth of a point.                        *)
(***************************************************************************)
EXTENDS Integers, Sequences, FiniteSets

VARIABLES
    doc,          \* this.doc: <<>> (null) or <<the document's received calls>>
    windowSongs,  \* window.songs: <<>> (unset) or <<catalog>>
    call,         \* the method invoked last and its arguments
    pc,           \* "idle", "pending" (arguments chosen) or "done"
    ret,          \* what the method returned (<<>> when nothing)
    console       \* console.log lines of the call, as stage tags

vars == <<doc, windowSongs, call, pc, ret, console>>

-----------------------------------------------------------------------------
(* Characters *)

LowerLetters ==
    <<"a", "b", "c", "d", "e", "f", "g", "h", "i", "j", "k", "l", "m",
      "n", "o", "p", "q", "r", "s", "t", "u", "v", "w", "x", "y", "z">>

UpperLetters ==
    <<"A", "B", "C", "D", "E", "F", "G", "H", "I", "J", "K", "L", "M",
      "N", "O", "P", "Q", "R", "S", "T", "U", "V", "W", "X", "Y", "Z">>

Range(s) == {s[i] : i \in DOMAIN s}

UpperSet == Range(UpperLetters)
WordChars == Range(LowerLetters) \cup Range(UpperLetters)

LowerOf ==
    [c \in UpperSet |->
        LowerLetters[CHOOSE i \in DOMAIN UpperLetters : UpperLetters[i] = c]]

\* The regular expressions' i flag: an upper-case ASCII letter matches its
\* lower-case form.
ToLower(c) == IF c \in UpperSet THEN LowerOf[c] ELSE c

\* \w of the regular expressions (no digit or underscore occurs in the model's
\* alphabet, an accented character is not \w).
IsWordChar(c) == c \in WordChars

Vowels == {"a", "e", "i", "o", "u", "A", "E", "I", "O", "U"}

IsVowel(c) == c \in Vowels

IsSpace(c) == c = " "

czechFallbacks ==
    << <<"a_acute", "a">>, <<"c_caron", "c">>, <<"d_caron", "d">>,
       <<"e_acute", "e">>, <<"e_caron", "e">>, <<"i_acute", "i">>,
       <<"n_caron", "n">>, <<"o_acute", "o">>, <<"r_caron", "r">>,
       <<"s_caron", "s">>, <<"t_caron", "t">>, <<"u_acute", "u">>,
       <<"u_ring", "u">>,  <<"y_acute", "y">>, <<"z_caron", "z">>,
       <<"A_acute", "A">>, <<"C_caron", "C">>, <<"D_caron", "D">>,
       <<"E_acute", "E">>, <<"E_caron", "E">>, <<"I_acute", "I">>,
       <<"N_caron", "N">>, <<"O_acute", "O">>, <<"R_caron", "R">>,
       <<"S_caron", "S">>, <<"T_caron", "T">>, <<"U_acute", "U">>,
       <<"U_ring", "U">>,  <<"Y_acute", "Y">>, <<"Z_caron", "Z">> >>

\* result.replace(new RegExp(czech, "g"), ascii) for a one-character pattern
ReplaceChar(text, from, to) ==
    [i \in DOMAIN text |-> IF text[i] = from THEN to ELSE text[i]]

RECURSIVE ConvertFrom(_, _)
ConvertFrom(text, k) ==
    IF k > Len(czechFallbacks) THEN text
    ELSE LET result == ReplaceChar(text, czechFallbacks[k][1],
                                   czechFallbacks[k][2])
         IN  \* (the test forces result before the next round)
             IF Len(result) = Len(text) THEN ConvertFrom(result, k + 1)
             ELSE result

CzechKeys == {czechFallbacks[k][1] : k \in DOMAIN czechFallbacks}

\* the loop over Object.entries(this.czechFallbacks); a text without any key of
\* the table is left as it is by every round
convertCzechCharacters(text) ==
    IF \A i \in DOMAIN text : text[i] \notin CzechKeys THEN text
    ELSE ConvertFrom(text, 1)

-----------------------------------------------------------------------------
(* The width oracle: this.doc.getTextWidth(text) at the font size set last *)

NarrowChars == {" ", "i", "j", "l", "t", "f", "r", "I", "/"}
WideChars == {"m", "w", "M", "W", "&"}

CharUnits(c) ==
    IF c \in NarrowChars THEN 1
    ELSE IF c \in WideChars THEN 3
    ELSE 2

RECURSIVE UnitsFrom(_, _)
UnitsFrom(text, i) ==
    IF i > Len(text) THEN 0 ELSE CharUnits(text[i]) + UnitsFrom(text, i + 1)

TextUnits(text) == UnitsFrom(text, 1)

getTextWidth(text, fontSize) == TextUnits(text) * fontSize

-----------------------------------------------------------------------------
(* String helpers of the JavaScript runtime *)

\* text.split(" "): every single space separates, empty words are kept
RECURSIVE SplitFrom(_, _, _)
SplitFrom(text, i, cur) ==
    IF i > Len(text) THEN <<cur>>
    ELSE IF text[i] = " " THEN <<cur>> \o SplitFrom(text, i + 1, <<>>)
    ELSE SplitFrom(text, i + 1, Append(cur, text[i]))

SplitSpace(text) == SplitFrom(text, 1, <<>>)

RECURSIVE SkipSpaces(_, _)
SkipSpaces(text, i) ==
    IF i <= Len(text) /\ IsSpace(text[i]) THEN SkipSpaces(text, i + 1) ELSE i

\* text.split(/\s+/): a run of whitespace separates once
RECURSIVE SplitWsFrom(_, _, _)
SplitWsFrom(text, i, cur) ==
    IF i > Len(text) THEN <<cur>>
    ELSE IF IsSpace(text[i])
         THEN <<cur>> \o SplitWsFrom(text, SkipSpaces(text, i), <<>>)
    ELSE SplitWsFrom(text, i + 1, Append(cur, text[i]))

SplitWhitespace(text) == SplitWsFrom(text, 1, <<>>)

\* words.join(" ")
RECURSIVE Join(_)
Join(words) ==
    IF words = <<>> THEN <<>>
    ELSE IF Len(words) = 1 THEN words[1]
    ELSE words[1] \o <<" ">> \o Join(Tail(words))

\* s.substring(from, to) with 0 <= from, JavaScript's 0-based half-open range
Substring(s, from, to) ==
    LET hi == IF to > Len(s) THEN Len(s) ELSE to
    IN  IF hi <= from THEN <<>> ELSE SubSeq(s, from + 1, hi)

\* F applied to the value of v: v is computed once, where a LET definition is
\* computed again at each of its uses
Bind(v, F(_)) == CHOOSE r \in {F(x) : x \in {v}} : TRUE

Max(a, b) == IF a >= b THEN a ELSE b
Min(a, b) == IF a <= b THEN a ELSE b

-----------------------------------------------------------------------------
(* Stage 1: applyVowelRemoval *)

RemoveVowels(s) == SelectSeq(s, LAMBDA c : ~IsVowel(c))

VowelRemovalWord(word) ==
    IF Len(word) <= 3 THEN word
    ELSE LET first  == word[1]
             last   == word[Len(word)]
             middle == Substring(word, 1, Len(word) - 1)
             stripped == RemoveVowels(middle)
             processedMiddle ==
                 IF Len(stripped) = 0 /\ Len(middle) > 1
                 THEN <<middle[1]>> ELSE stripped
         IN  <<first>> \o processedMiddle \o <<last>>

applyVowelRemoval(phrase) ==
    LET words == SplitSpace(phrase)
    IN  Join([i \in DOMAIN words |-> VowelRemovalWord(words[i])])

-----------------------------------------------------------------------------
(* Stage 2: applyMorphemeShortening *)

commonAbbreviations ==
    << << <<"a", "n", "d">>, <<"&">> >>,
       << <<"w", "i", "t", "h">>, <<"w", "/">> >>,
       << <<"w", "i", "t", "h", "o", "u", "t">>, <<"w", "/", "o">> >>,
       << <<"t", "h", "e">>, <<"t", "h", "e">> >>,
       << <<"t", "h", "r", "o", "u", "g", "h">>, <<"t", "h", "r", "u">> >>,
       << <<"b", "e", "c", "a", "u", "s", "e">>, <<"b", "c">> >>,
       << <<"b", "e", "f", "o", "r", "e">>, <<"b", "f", "r">> >>,
       << <<"a", "f", "t", "e", "r">>, <<"a", "f", "t", "r">> >>,
       << <<"b", "e", "t", "w", "e", "e", "n">>, <<"b", "t", "w", "n">> >>,
       << <<"a", "r", "o", "u", "n", "d">>, <<"a", "r", "n", "d">> >>,
       << <<"t", "o", "n", "i", "g", "h", "t">>, <<"t", "n", "g", "h", "t">> >>,
       << <<"s", "o", "m", "e", "t", "h", "i", "n", "g">>,
          <<"s", "m", "t", "h", "g">> >>,
       << <<"s", "o", "m", "e", "o", "n", "e">>, <<"s", "m", "n", "e">> >>,
       << <<"t", "o", "g", "e", "t", "h", "e", "r">>,
          <<"t", "g", "t", "h", "r">> >>,
       << <<"r", "e", "m", "e", "m", "b", "e", "r">>, <<"r", "m", "b", "r">> >>,
       << <<"s", "h", "o", "u", "l", "d">>, <<"s", "h", "l", "d">> >>,
       << <<"w", "o", "u", "l", "d">>, <<"w", "l", "d">> >>,
       << <<"c", "o", "u", "l", "d">>, <<"c", "l", "d">> >>,
       << <<"n", "e", "v", "e", "r">>, <<"n", "v", "r">> >>,
       << <<"e", "v", "e", "r", "y">>, <<"e", "v", "r", "y">> >>,
       << <<"p", "e", "o", "p", "l", "e">>, <<"p", "p", "l">> >>,
       << <<"l", "i", "t", "t", "l", "e">>, <<"l", "t", "l">> >> >>

\* new RegExp(`\\b${word}\\b`, "gi") matches at 1-based position i of text
MatchesAt(text, i, word) ==
    /\ i + Len(word) - 1 <= Len(text)
    /\ \A k \in DOMAIN word : ToLower(text[i + k - 1]) = word[k]
    /\ i = 1 \/ ~IsWordChar(text[i - 1])
    /\ i + Len(word) > Len(text) \/ ~IsWordChar(text[i + Len(word)])

\* result.replace(regex, abbrev): leftmost matches, left to right
RECURSIVE ReplaceWordFrom(_, _, _, _)
ReplaceWordFrom(text, i, word, abbrev) ==
    IF i > Len(text) THEN <<>>
    ELSE IF MatchesAt(text, i, word)
         THEN abbrev \o ReplaceWordFrom(text, i + Len(word), word, abbrev)
    ELSE <<text[i]>> \o ReplaceWordFrom(text, i + 1, word, abbrev)

RECURSIVE MorphemeFrom(_, _)
MorphemeFrom(result, k) ==
    IF k > Len(commonAbbreviations) THEN result
    ELSE LET replaced == ReplaceWordFrom(result, 1, commonAbbreviations[k][1],
                                         commonAbbreviations[k][2])
         IN  \* (the test forces replaced before the next round)
             IF Len(replaced) >= 0 THEN MorphemeFrom(replaced, k + 1)
             ELSE replaced

applyMorphemeShortening(phrase) == MorphemeFrom(phrase, 1)

-----------------------------------------------------------------------------
(* Stage 4: applyAggressiveShortening and preserveWordShape *)

\* preserveWordShape cutting the middle by the number of characters to drop
\* instead of keeping maxLength - 2 of them
preserveWordShapeDropCount(word, maxLength) ==
    IF Len(word) <= maxLength THEN word
    ELSE IF maxLength >= 3
         THEN LET middle == Substring(word, 1, Len(word) - 1)
                  truncatedMiddle == Substring(middle, 0,
                                               Len(word) - maxLength)
              IN  <<word[1]>> \o truncatedMiddle \o <<word[Len(word)]>>
    ELSE IF maxLength >= 2 THEN <<word[1], word[Len(word)]>>
    ELSE <<word[1]>>

preserveWordShape(word, maxLength) ==
    IF Len(word) <= maxLength THEN word
    ELSE IF maxLength >= 3
         THEN LET middleLength == maxLength - 2
                  middle == Substring(word, 1, Len(word) - 1)
                  truncatedMiddle == Substring(middle, 0, middleLength)
              IN  <<word[1]>> \o truncatedMiddle \o <<word[Len(word)]>>
    ELSE IF maxLength >= 2 THEN <<word[1], word[Len(word)]>>
    ELSE <<word[1]>>

\* the character budget: Math.floor(maxWidth / getTextWidth("M"))
totalAvailableChars(maxWidth, fontSize) ==
    maxWidth \div getTextWidth(<<"M">>, fontSize)

\* one round of the for loop over words, from index i (1-based) on
RECURSIVE AggressiveFrom(_, _, _, _)
AggressiveFrom(words, i, result, available) ==
    IF i > Len(words) THEN result
    ELSE LET word == words[i]
             usedChars == Len(result)
             remainingChars == available - usedChars
             remainingWords == Len(words) - (i - 1)
             targetCharsForWord ==
                 Max(2, Min(Len(word), remainingChars \div remainingWords))
             shortenedWord ==
                 IF Len(word) <= targetCharsForWord THEN word
                 ELSE preserveWordShape(word, targetCharsForWord)
             sep == IF result # <<>> THEN <<" ">> ELSE <<>>
             appended == result \o sep \o shortenedWord
         IN  IF remainingChars <= 0 THEN result
             ELSE IF Len(appended) >= 0
                  THEN AggressiveFrom(words, i + 1, appended, available)
             ELSE appended

applyAggressiveShortening(phrase, maxWidth, fontSize) ==
    AggressiveFrom(SplitWhitespace(phrase), 1, <<>>,
                   totalAvailableChars(maxWidth, fontSize))

-----------------------------------------------------------------------------
(* shortenPhrase: the result and the console.log lines of the call *)

\* the trigger test with < for <=
WithinTriggerStrict(textWidth, maxWidth) == 10 * textWidth < 9 * maxWidth

\* textWidth <= maxWidth * 0.9
WithinTrigger(textWidth, maxWidth) == 10 * textWidth <= 9 * maxWidth

\* the stage test against 90% of maxWidth, as the trigger test has it
FitsWithin90(text, maxWidth, fontSize) ==
    10 * getTextWidth(text, fontSize) <= 9 * maxWidth

\* this.doc.getTextWidth(shortened) <= maxWidth
Fits(text, maxWidth, fontSize) == getTextWidth(text, fontSize) <= maxWidth

shortenPhraseRun(phrase, maxWidth, fontSize, isSong) ==
    LET workingPhrase == convertCzechCharacters(phrase)
        stage1 == applyVowelRemoval(workingPhrase)
        stage2 == applyMorphemeShortening(workingPhrase)
        stage3 == applyVowelRemoval(applyMorphemeShortening(workingPhrase))
        final  == applyAggressiveShortening(stage3, maxWidth, fontSize)
    IN  IF ~isSong THEN [result |-> workingPhrase, log |-> <<>>]
        ELSE IF WithinTrigger(getTextWidth(workingPhrase, fontSize), maxWidth)
             THEN [result |-> workingPhrase, log |-> <<>>]
        ELSE IF Fits(stage1, maxWidth, fontSize)
             THEN [result |-> stage1,
                   log |-> <<"Shortening", "After vowel removal">>]
        ELSE IF Fits(stage2, maxWidth, fontSize)
             THEN [result |-> stage2,
                   log |-> <<"Shortening", "After vowel removal",
                             "After morpheme shortening">>]
        ELSE IF Fits(stage3, maxWidth, fontSize)
             THEN [result |-> stage3,
                   log |-> <<"Shortening", "After vowel removal",
                             "After morpheme shortening",
                             "After combined shortening">>]
        ELSE [result |-> final,
              log |-> <<"Shortening", "After vowel removal",
                        "After morpheme shortening",
                        "After combined shortening", "Final result">>]

shortenPhrase(phrase, maxWidth, fontSize, isSong) ==
    shortenPhraseRun(phrase, maxWidth, fontSize, isSong).result

-----------------------------------------------------------------------------
(* Page geometry (constructor) and units *)

pageWidth == 210
pageHeight == 297
margin == 8
contentWidth == pageWidth - margin * 2
contentHeight == pageHeight - margin * 2

\* a length of x mm on the page, in units of 1/250000 mm
Mm(x) == x * 250000

\* a width of x mm, in the width oracle's units of 1/100 mm
WidthMm(x) == x * 100

\* fontSize * this.PT_TO_MM * (pct / 100) with PT_TO_MM = 0.3528, fontSize in
\* tenths of a point: fontSize/10 * 3528/10000 * pct/100 mm, exact for every
\* pct the source uses (multiples of 5)
PtToMm(fontSize, pct) == (fontSize * 3528 * pct) \div 40

-----------------------------------------------------------------------------
(* Setlist entries and the song catalog *)

\* { type: "song", song: title, duration } (duration 0: the field is absent,
\* which item.duration || 3 treats alike)
Song(title, duration) ==
    [type |-> "song", song |-> title, text |-> <<>>, duration |-> duration]

\* { type: "midshow", text }
Midshow(text) ==
    [type |-> "midshow", song |-> <<>>, text |-> text, duration |-> 0]

IsSong(item) == item.type # "midshow"

songCountOf(setlist) == Len(SelectSeq(setlist, IsSong))

-----------------------------------------------------------------------------
(* calculateMidshowFontSize *)

RECURSIVE MidshowSizeFrom(_, _, _)
MidshowSizeFrom(workingText, maxWidth, fontSize) ==
    IF getTextWidth(workingText, fontSize) > maxWidth /\ fontSize > 80
    THEN MidshowSizeFrom(workingText, maxWidth, fontSize - 10)
    ELSE fontSize

calculateMidshowFontSize(text, maxWidth, baseFontSize) ==
    MidshowSizeFrom(convertCzechCharacters(text), maxWidth, baseFontSize)

-----------------------------------------------------------------------------
(* calculateFontSizes and calculateSinglePageSizes *)

\* midshowSize = Math.max(16, size * 0.6)
MidshowSizeFor(size) == Max(160, (size * 6) \div 10)

\* one round of the forEach of calculateSinglePageSizes, for the item at index
\* i (1-based): what it adds to estimatedHeight
EstimateEntry(item, i, songSize, midshowSize) ==
    LET isSong == IsSong(item)
        fontSize == IF isSong THEN songSize ELSE midshowSize
        lineHeight == PtToMm(fontSize, 105)
        extra == IF ~isSong /\ i - 1 > 0 THEN PtToMm(fontSize, 15) ELSE 0
    IN  extra + lineHeight

\* the rounds lo..hi of that forEach, in order (the range is halved to keep
\* the evaluation shallow)
RECURSIVE EstimateRange(_, _, _, _, _)
EstimateRange(setlist, lo, hi, songSize, midshowSize) ==
    IF lo > hi THEN 0
    ELSE IF lo = hi
         THEN EstimateEntry(setlist[lo], lo, songSize, midshowSize)
    ELSE LET mid == (lo + hi) \div 2
         IN  EstimateRange(setlist, lo, mid, songSize, midshowSize)
                 + EstimateRange(setlist, mid + 1, hi, songSize, midshowSize)

estimatedHeight(setlist, size) ==
    EstimateRange(setlist, 1, Len(setlist), size, MidshowSizeFor(size))

availableHeight == Mm(contentHeight - 20)

\* the search stepping by 4 instead of 2
RECURSIVE SearchFromBy4(_, _)
SearchFromBy4(setlist, size) ==
    IF estimatedHeight(setlist, size) <= availableHeight \/ size - 40 < 240
    THEN size
    ELSE SearchFromBy4(setlist, size - 40)

\* for (let size = 60; size >= 24; size -= 2), from the candidate size on;
\* the sizes assigned last are the ones returned
RECURSIVE SearchFrom(_, _)
SearchFrom(setlist, size) ==
    IF estimatedHeight(setlist, size) <= availableHeight \/ size - 20 < 240
    THEN size
    ELSE SearchFrom(setlist, size - 20)

calculateSinglePageSizes(setlist) ==
    LET songSize == SearchFrom(setlist, 600)
        midshowSize == MidshowSizeFor(songSize)
    IN  [songFontSize |-> Max(240, songSize),
         midshowFontSize |-> Max(140, midshowSize)]

\* calculateFontSizes with songCount <= 10 for songCount <= 9
calculateFontSizesUpTo10(setlist) ==
    IF songCountOf(setlist) <= 10 THEN calculateSinglePageSizes(setlist)
    ELSE [songFontSize |-> 420, midshowFontSize |-> 280]

calculateFontSizes(setlist) ==
    IF songCountOf(setlist) <= 9 THEN calculateSinglePageSizes(setlist)
    ELSE [songFontSize |-> 420, midshowFontSize |-> 280]

-----------------------------------------------------------------------------
(* addSetlistContent: the calls the stage view makes on the document *)

TextCall(text, x, y, fontSize, style) ==
    [op |-> "text", text |-> text, x |-> x, y |-> y, fontSize |-> fontSize,
     style |-> style]

AddPageCall ==
    [op |-> "addPage", text |-> <<>>, x |-> 0, y |-> 0, fontSize |-> 0,
     style |-> ""]

\* StageEntry with the line heights of the two modes swapped
StageEntrySwappedSpacing(item, i, yPosition, sizes, forceSinglePage) ==
    LET isSong == IsSong(item)
        text == IF isSong THEN item.song ELSE item.text
        maxWidth == IF isSong THEN WidthMm(contentWidth)
                    ELSE WidthMm(contentWidth - 15)
    IN  Bind(IF isSong THEN sizes.songFontSize
             ELSE calculateMidshowFontSize(text, maxWidth,
                                           sizes.midshowFontSize),
             LAMBDA actualFontSize :
        LET extraSpace ==
                IF ~isSong /\ i - 1 > 0
                THEN PtToMm(actualFontSize, IF forceSinglePage THEN 10 ELSE 20)
                ELSE 0
            yDraw == yPosition + extraSpace
            displayText == shortenPhrase(text, maxWidth, actualFontSize,
                                         isSong)
            xPos == IF isSong THEN margin ELSE margin + 15
            baselineOffset == PtToMm(actualFontSize, 80)
            lineHeight == PtToMm(actualFontSize,
                                 IF forceSinglePage THEN 115 ELSE 105)
            yAfter == yDraw + lineHeight
            breaksPage == ~forceSinglePage
                          /\ yAfter + lineHeight > Mm(pageHeight - margin)
            drawn == TextCall(displayText, xPos, yDraw + baselineOffset,
                              actualFontSize,
                              IF isSong THEN "bold" ELSE "italic")
        IN  [calls |-> <<drawn>>
                           \o (IF breaksPage THEN <<AddPageCall>> ELSE <<>>),
             yPosition |-> IF breaksPage THEN Mm(margin + 15) ELSE yAfter])

\* StageEntry with the page-break test against pageWidth for pageHeight
StageEntryPageWidth(item, i, yPosition, sizes, forceSinglePage) ==
    LET isSong == IsSong(item)
        text == IF isSong THEN item.song ELSE item.text
        maxWidth == IF isSong THEN WidthMm(contentWidth)
                    ELSE WidthMm(contentWidth - 15)
    IN  Bind(IF isSong THEN sizes.songFontSize
             ELSE calculateMidshowFontSize(text, maxWidth,
                                           sizes.midshowFontSize),
             LAMBDA actualFontSize :
        LET extraSpace ==
                IF ~isSong /\ i - 1 > 0
                THEN PtToMm(actualFontSize, IF forceSinglePage THEN 10 ELSE 20)
                ELSE 0
            yDraw == yPosition + extraSpace
            displayText == shortenPhrase(text, maxWidth, actualFontSize,
                                         isSong)
            xPos == IF isSong THEN margin ELSE margin + 15
            baselineOffset == PtToMm(actualFontSize, 80)
            lineHeight == PtToMm(actualFontSize,
                                 IF forceSinglePage THEN 105 ELSE 115)
            yAfter == yDraw + lineHeight
            breaksPage == ~forceSinglePage
                          /\ yAfter + lineHeight > Mm(pageWidth - margin)
            drawn == TextCall(displayText, xPos, yDraw + baselineOffset,
                              actualFontSize,
                              IF isSong THEN "bold" ELSE "italic")
        IN  [calls |-> <<drawn>>
                           \o (IF breaksPage THEN <<AddPageCall>> ELSE <<>>),
             yPosition |-> IF breaksPage THEN Mm(margin + 15) ELSE yAfter])

\* one round of the forEach of addSetlistContent, for the item at index i
\* (1-based) with the cursor at yPosition: the calls made on this.doc, in
\* order, and the cursor it leaves
StageEntry(item, i, yPosition, sizes, forceSinglePage) ==
    LET isSong == IsSong(item)
        text == IF isSong THEN item.song ELSE item.text
        maxWidth == IF isSong THEN WidthMm(contentWidth)
                    ELSE WidthMm(contentWidth - 15)
    IN  Bind(IF isSong THEN sizes.songFontSize
             ELSE calculateMidshowFontSize(text, maxWidth,
                                           sizes.midshowFontSize),
             LAMBDA actualFontSize :
        LET extraSpace ==
                IF ~isSong /\ i - 1 > 0
                THEN PtToMm(actualFontSize, IF forceSinglePage THEN 10 ELSE 20)
                ELSE 0
            yDraw == yPosition + extraSpace
            displayText == shortenPhrase(text, maxWidth, actualFontSize,
                                         isSong)
            xPos == IF isSong THEN margin ELSE margin + 15
            baselineOffset == PtToMm(actualFontSize, 80)
            lineHeight == PtToMm(actualFontSize,
                                 IF forceSinglePage THEN 105 ELSE 115)
            yAfter == yDraw + lineHeight
            breaksPage == ~forceSinglePage
                          /\ yAfter + lineHeight > Mm(pageHeight - margin)
            drawn == TextCall(displayText, xPos, yDraw + baselineOffset,
                              actualFontSize,
                              IF isSong THEN "bold" ELSE "italic")
        IN  [calls |-> <<drawn>>
                           \o (IF breaksPage THEN <<AddPageCall>> ELSE <<>>),
             yPosition |-> IF breaksPage THEN Mm(margin + 15) ELSE yAfter])

\* the rounds lo..hi of the forEach of addSetlistContent, in order
RECURSIVE StageRange(_, _, _, _, _, _)
StageRange(setlist, lo, hi, yPosition, sizes, forceSinglePage) ==
    IF lo > hi THEN [calls |-> <<>>, yPosition |-> yPosition]
    ELSE IF lo = hi
         THEN StageEntry(setlist[lo], lo, yPosition, sizes, forceSinglePage)
    ELSE LET mid == (lo + hi) \div 2
         IN  Bind(StageRange(setlist, lo, mid, yPosition, sizes,
                             forceSinglePage),
                  LAMBDA first :
             Bind(StageRange(setlist, mid + 1, hi, first.yPosition, sizes,
                             forceSinglePage),
                  LAMBDA rest :
                      [calls |-> first.calls \o rest.calls,
                       yPosition |-> rest.yPosition]))

addSetlistContent(setlist) ==
    Bind(calculateFontSizes(setlist),
         LAMBDA sizes : StageRange(setlist, 1, Len(setlist), Mm(margin + 15),
                                   sizes, songCountOf(setlist) <= 9).calls)

\* the console.log lines of the stage view's rounds lo..hi: one per midshow
\* entry, and the stage tags of shortenPhrase per song
RECURSIVE StageLogRange(_, _, _, _)
StageLogRange(setlist, lo, hi, sizes) ==
    IF lo > hi THEN <<>>
    ELSE IF lo = hi
         THEN (IF IsSong(setlist[lo])
               THEN shortenPhraseRun(setlist[lo].song, WidthMm(contentWidth),
                                     sizes.songFontSize, TRUE).log
               ELSE <<"Midshow">>)
    ELSE LET mid == (lo + hi) \div 2
         IN  StageLogRange(setlist, lo, mid, sizes)
                 \o StageLogRange(setlist, mid + 1, hi, sizes)

stageLog(setlist) ==
    Bind(calculateFontSizes(setlist),
         LAMBDA sizes : StageLogRange(setlist, 1, Len(setlist), sizes))

-----------------------------------------------------------------------------
(* formatTime, calculateTotalDuration, wrapText *)

Digits == <<"0", "1", "2", "3", "4", "5", "6", "7", "8", "9">>

\* n.toString() for a natural number
RECURSIVE NumberToString(_)
NumberToString(n) ==
    IF n < 10 THEN <<Digits[n + 1]>>
    ELSE NumberToString(n \div 10) \o <<Digits[(n % 10) + 1]>>

\* s.padStart(2, "0")
PadStart2(s) == IF Len(s) < 2 THEN <<"0">> \o s ELSE s

\* minutes are whole numbers in the model, so Math.round changes nothing
formatTime(minutes) ==
    LET totalSeconds == minutes * 60
        mins == totalSeconds \div 60
        secs == totalSeconds % 60
    IN  PadStart2(NumberToString(mins)) \o <<":">> \o PadStart2(NumberToString(secs))

\* x || 3 for a duration
OrDefault(duration) == IF duration = 0 THEN 3 ELSE duration

\* the reduce of calculateTotalDuration over the items lo..hi
RECURSIVE TotalRange(_, _, _)
TotalRange(setlist, lo, hi) ==
    IF lo > hi THEN 0
    ELSE IF lo = hi
         THEN (IF setlist[lo].type = "midshow" THEN 1
               ELSE OrDefault(setlist[lo].duration))
    ELSE LET mid == (lo + hi) \div 2
         IN  TotalRange(setlist, lo, mid) + TotalRange(setlist, mid + 1, hi)

calculateTotalDuration(setlist) == TotalRange(setlist, 1, Len(setlist))

\* the words.forEach of wrapText from word i (1-based) on, and the final push
RECURSIVE WrapFrom(_, _, _, _, _)
WrapFrom(words, i, currentLine, maxWidth, fontSize) ==
    LET pushed == IF currentLine # <<>> THEN <<currentLine>> ELSE <<>>
    IN  IF i > Len(words) THEN pushed
        ELSE LET testLine ==
                     currentLine
                         \o (IF currentLine # <<>> THEN <<" ">> ELSE <<>>)
                         \o words[i]
             IN  IF getTextWidth(testLine, fontSize) <= maxWidth
                 THEN WrapFrom(words, i + 1, testLine, maxWidth, fontSize)
                 ELSE pushed \o WrapFrom(words, i + 1, words[i], maxWidth,
                                         fontSize)

wrapText(text, maxWidth, fontSize) ==
    WrapFrom(SplitSpace(text), 1, <<>>, maxWidth, fontSize)

-----------------------------------------------------------------------------
(* addOrganizerSection: the totals it prints and the rows of its table *)

Standard == <<"S", "t", "a", "n", "d", "a", "r", "d">>

MidshowBreak ==
    <<"M", "i", "d", "s", "h", "o", "w", " ", "B", "r", "e", "a", "k">>

\* window.songs.find((s) => s.name === item.song): <<>> or <<the entry>>
Find(catalog, name) ==
    LET hits == SelectSeq(catalog, LAMBDA entry : entry.name = name)
    IN  IF hits = <<>> THEN <<>> ELSE <<hits[1]>>

\* one table row: what is printed in each column at height y
Row(y, time, title, vibe, duration) ==
    [op |-> "row", y |-> y, time |-> time, title |-> title, vibe |-> vibe,
     duration |-> duration]

HeaderPage ==
    [op |-> "addPage", y |-> 0, time |-> <<>>, title |-> <<>>, vibe |-> <<>>,
     duration |-> <<>>]

\* one round of the setlist.forEach of addOrganizerSection, with the cursor at
\* yPosition and the clock at currentTime: what it prints, and the cursor and
\* the clock it leaves
OrganizerEntry(item, yPosition, currentTime, songs) ==
    LET lineHeight == PtToMm(140, 100)
        newPage == yPosition > Mm(pageHeight - margin - 20)
        y == IF newPage THEN Mm(margin + 25) + Mm(5) + lineHeight
             ELSE yPosition
        isSong == IsSong(item)
    IN  Bind(IF isSong /\ songs # <<>> THEN Find(songs[1], item.song)
             ELSE <<>>,
             LAMBDA songData :
        LET duration == IF isSong
                        THEN (IF songData # <<>>
                              THEN OrDefault(songData[1].duration) ELSE 3)
                        ELSE 1
            startTime == formatTime(currentTime)
            endTime == formatTime(currentTime + duration)
            title == convertCzechCharacters(
                         IF isSong THEN item.song ELSE item.text)
            vibe == IF isSong
                    THEN convertCzechCharacters(
                             IF songData # <<>> /\ songData[1].vibe # <<>>
                             THEN songData[1].vibe ELSE Standard)
                    ELSE MidshowBreak
        IN  Bind(wrapText(title, WidthMm(80), 90),
                 LAMBDA wrappedTitle :
            LET titleYOffset == Len(wrappedTitle) * PtToMm(140, 90)
                rowHeight == Max(lineHeight, titleYOffset)
                row == Row(y, startTime \o <<" ", "-", " ">> \o endTime,
                           wrappedTitle, vibe,
                           NumberToString(duration) \o <<":", "0", "0">>)
            IN  [calls |-> (IF newPage THEN <<HeaderPage>> ELSE <<>>)
                               \o <<row>>,
                 yPosition |-> y + rowHeight,
                 currentTime |-> currentTime + duration]))

\* the rounds lo..hi of that forEach, in order
RECURSIVE OrganizerRange(_, _, _, _, _, _)
OrganizerRange(setlist, lo, hi, yPosition, currentTime, songs) ==
    IF lo > hi
    THEN [calls |-> <<>>, yPosition |-> yPosition,
          currentTime |-> currentTime]
    ELSE IF lo = hi
         THEN OrganizerEntry(setlist[lo], yPosition, currentTime, songs)
    ELSE LET mid == (lo + hi) \div 2
         IN  Bind(OrganizerRange(setlist, lo, mid, yPosition, currentTime,
                                 songs),
                  LAMBDA first :
             Bind(OrganizerRange(setlist, mid + 1, hi, first.yPosition,
                                 first.currentTime, songs),
                  LAMBDA rest :
                      [calls |-> first.calls \o rest.calls,
                       yPosition |-> rest.yPosition,
                       currentTime |-> rest.currentTime]))

\* yPosition at the first row: the header lines above the table
firstRowY ==
    Mm(margin + 10) + PtToMm(140, 150) + PtToMm(140, 80) + PtToMm(80, 250)
        + Mm(3) + PtToMm(140, 80)

organizerRows(setlist, songs) ==
    OrganizerRange(setlist, 1, Len(setlist), firstRowY, 0, songs).calls

\* Total Duration / Total Songs / Midshow Breaks / Estimated Total Time
organizerTotals(setlist) ==
    [totalDuration |-> formatTime(calculateTotalDuration(setlist)),
     totalSongs |-> songCountOf(setlist),
     midshowBreaks |-> Len(setlist) - songCountOf(setlist)]

-----------------------------------------------------------------------------
(* The document a call draws on: what new jsPDF() has received so far *)

NewDoc ==
    [stage     |-> <<>>,    \* calls of the stage view, in order
     organizer |-> <<>>,    \* table rows and page breaks of the organizer
     totals    |-> <<>>,    \* the totals printed by the organizer section
     addPages  |-> 0,       \* addPage calls received
     saved     |-> FALSE]   \* save called

AddPagesIn(calls) == Len(SelectSeq(calls, LAMBDA c : c.op = "addPage"))

-----------------------------------------------------------------------------
(* export(setlist, songs = null) *)

\* what the new document has received when export returns: the stage view,
\* the page break before the organizer section, that section, and save
exportedDoc(setlist, songs) ==
    Bind(addSetlistContent(setlist), LAMBDA stage :
    Bind(organizerRows(setlist, songs), LAMBDA rows :
        [stage     |-> stage,
         organizer |-> rows,
         totals    |-> <<organizerTotals(setlist)>>,
         addPages  |-> AddPagesIn(stage) + 1 + AddPagesIn(rows),
         saved     |-> TRUE]))

\* export without the early return on an empty setlist
ExportAlways(setlist, songs) ==
    /\ call' = [op |-> "export", setlist |-> setlist, songs |-> songs]
    /\ pc' = "done"
    /\ ret' = <<>>
    /\ LET stored == IF songs # <<>> THEN songs ELSE windowSongs
       IN  /\ windowSongs' = stored
           /\ doc' = << exportedDoc(setlist, stored) >>
           /\ console' = stageLog(setlist)

Export(setlist, songs) ==
    /\ call' = [op |-> "export", setlist |-> setlist, songs |-> songs]
    /\ pc' = "done"
    /\ ret' = <<>>
    /\ IF Len(setlist) = 0
       THEN /\ console' = <<>>
            /\ UNCHANGED <<doc, windowSongs>>
       ELSE LET stored == IF songs # <<>> THEN songs ELSE windowSongs
            IN  /\ windowSongs' = stored
                /\ doc' = << exportedDoc(setlist, stored) >>
                /\ console' = stageLog(setlist)

-----------------------------------------------------------------------------
(* The text functions, applied to arguments drawn at the start *)

MaxWords == 2
MaxWidthSteps == 16

TextWords ==
    { <<>>,
      <<"a", "n", "d">>,
      <<"W", "i", "t", "h", "o", "u", "t">>,
      <<"S", "o", "m", "e", "t", "h", "i", "n", "g">>,
      <<"q", "u", "e", "u", "e">>,
      <<"D", "a", "n", "c", "i", "n", "g">>,
      <<"R_caron", "e", "k", "a">> }

TextPhrases ==
    { Join(ws) : ws \in UNION { [1..n -> TextWords] : n \in 0..MaxWords } }

TextMaxWidths == { 1000 * i : i \in 0..MaxWidthSteps }

TextFontSizes == {240, 420}

InitText ==
    /\ doc = <<NewDoc>>
    /\ windowSongs = <<>>
    /\ pc = "pending"
    /\ \E phrase \in TextPhrases, maxWidth \in TextMaxWidths,
          fontSize \in TextFontSizes :
           call = [op |-> "none", phrase |-> phrase, maxWidth |-> maxWidth,
                   fontSize |-> fontSize, isSong |-> TRUE]
    /\ ret = <<>>
    /\ console = <<>>

ShortenPhrase(isSong) ==
    /\ pc = "pending"
    /\ LET run == shortenPhraseRun(call.phrase, call.maxWidth, call.fontSize,
                                   isSong)
       IN  /\ ret' = run.result
           /\ console' = run.log
    /\ call' = [call EXCEPT !.op = "shortenPhrase", !.isSong = isSong]
    /\ pc' = "done"
    /\ UNCHANGED <<doc, windowSongs>>

ApplyAggressiveShortening ==
    /\ pc = "pending"
    /\ ret' = applyAggressiveShortening(call.phrase, call.maxWidth,
                                        call.fontSize)
    /\ call' = [call EXCEPT !.op = "applyAggressiveShortening"]
    /\ pc' = "done"
    /\ UNCHANGED <<doc, windowSongs, console>>

NextText ==
    \/ \E isSong \in BOOLEAN : ShortenPhrase(isSong)
    \/ ApplyAggressiveShortening

SpecText == InitText /\ [][NextText]_vars


-----------------------------------------------------------------------------
(* calculateMidshowFontSize, applied to arguments drawn at the start: the  *)
(* phrases and widths of the text functions, and the base sizes that       *)
(* addSetlistContent passes (the midshowFontSize of a plan) with the 8pt   *)
(* minimum itself                                                          *)

MidshowBaseSizes ==
    { Max(140, MidshowSizeFor(600 - 20 * k)) : k \in 0..18 } \cup {280, 80}

InitMidshow ==
    /\ doc = <<NewDoc>>
    /\ windowSongs = <<>>
    /\ pc = "pending"
    /\ \E phrase \in TextPhrases, maxWidth \in TextMaxWidths,
          fontSize \in MidshowBaseSizes :
           call = [op |-> "none", phrase |-> phrase, maxWidth |-> maxWidth,
                   fontSize |-> fontSize, isSong |-> FALSE]
    /\ ret = <<>>
    /\ console = <<>>

CalculateMidshowFontSize ==
    /\ pc = "pending"
    /\ ret' = calculateMidshowFontSize(call.phrase, call.maxWidth,
                                       call.fontSize)
    /\ call' = [call EXCEPT !.op = "calculateMidshowFontSize"]
    /\ pc' = "done"
    /\ console' = <<"Midshow">>
    /\ UNCHANGED <<doc, windowSongs>>

NextMidshow == CalculateMidshowFontSize

SpecMidshow == InitMidshow /\ [][NextMidshow]_vars

-----------------------------------------------------------------------------
(* The layout: calculateFontSizes and export, applied to a setlist drawn   *)
(* at the start. A setlist is an optional opening announcement, a run of   *)
(* songs, a run of breaks and an optional encore.                          *)

MaxSongs == 16
MaxBreaks == 28

SongTitle == <<"S", "o", "n", "g">>

ShortBreak == <<"B", "r", "e", "a", "k">>

LongBreak ==
    <<"I", "n", "t", "e", "r", "m", "i", "s", "s", "i", "o">> \o
      <<"n", " ", "a", "n", "d", " ", "a", "n", "n", "o", "u">> \o
      <<"n", "c", "e", "m", "e", "n", "t", "s", " ", "f", "r">> \o
      <<"o", "m", " ", "t", "h", "e", " ", "b", "a", "n", "d">>

Repeat(x, n) == [i \in 1..n |-> x]

Openings == { <<>>, <<Midshow(ShortBreak)>>, <<Midshow(LongBreak)>> }

Encores == { <<>>, <<Song(SongTitle, 0)>> }

LayoutSetlists ==
    { opening \o Repeat(Song(SongTitle, 0), songs)
          \o Repeat(Midshow(ShortBreak), breaks) \o encore :
        opening \in Openings, songs \in 0..MaxSongs, breaks \in 0..MaxBreaks,
        encore \in Encores }

InitLayout ==
    /\ doc = <<>>
    /\ windowSongs = <<>>
    /\ pc = "pending"
    /\ \E setlist \in LayoutSetlists :
           call = [op |-> "none", setlist |-> setlist, songs |-> <<>>]
    /\ ret = <<>>
    /\ console = <<>>

CalculateFontSizes ==
    /\ pc = "pending"
    /\ ret' = calculateFontSizes(call.setlist)
    /\ call' = [call EXCEPT !.op = "calculateFontSizes"]
    /\ pc' = "done"
    /\ UNCHANGED <<doc, windowSongs, console>>

ExportPending ==
    /\ pc = "pending"
    /\ Export(call.setlist, call.songs)

NextLayout == CalculateFontSizes \/ ExportPending

SpecLayout == InitLayout /\ [][NextLayout]_vars

-----------------------------------------------------------------------------
(* The exporter over its life: any number of export calls, one after the   *)
(* other, on the one exporter instance and the one window                  *)

MaxSetlistLen == 2

TitleA == <<"A", "n", "d", "e", "l">>
TitleB == <<"R_caron", "e", "k", "a">>
Rock == <<"R", "o", "c", "k">>
Ballad == <<"B", "a", "l", "a", "d", "a_acute">>

SmallEntries == { Song(TitleA, 0), Song(TitleB, 4), Midshow(ShortBreak) }

SmallSetlists == UNION { [1..n -> SmallEntries] : n \in 0..MaxSetlistLen }

\* the songs argument: <<>> (null or omitted) or <<the array>>
Catalogs ==
    { <<>>,
      << <<>> >>,
      << << [name |-> TitleA, duration |-> 5, vibe |-> Rock] >> >>,
      << << [name |-> TitleB, duration |-> 0, vibe |-> Ballad],
            [name |-> TitleA, duration |-> 2, vibe |-> <<>>] >> >> }

Init ==
    /\ doc = <<>>
    /\ windowSongs = <<>>
    /\ pc = "idle"
    /\ call = [op |-> "none", setlist |-> <<>>, songs |-> <<>>]
    /\ ret = <<>>
    /\ console = <<>>

Next == \E setlist \in SmallSetlists, songs \in Catalogs : Export(setlist, songs)

Spec == Init /\ [][Next]_vars

-----------------------------------------------------------------------------
(* Claims about the text functions (checked under SpecText) *)

ShortenDone == pc = "done" /\ call.op = "shortenPhrase"
AggressiveDone == pc = "done" /\ call.op = "applyAggressiveShortening"

\* the stages of the call's phrase, each computed as shortenPhrase does
StagesOf(c) ==
    LET working  == convertCzechCharacters(c.phrase)
        morpheme == applyMorphemeShortening(working)
        combined == applyVowelRemoval(morpheme)
    IN  [working |-> working,
         stage1  |-> applyVowelRemoval(working),
         stage2  |-> morpheme,
         stage3  |-> combined,
         stage4  |-> applyAggressiveShortening(combined, c.maxWidth,
                                               c.fontSize)]

WidthOf(text) == getTextWidth(text, call.fontSize)
Triggered(working) == 10 * WidthOf(working) > 9 * call.maxWidth

\* C1: for a song phrase wider than 0.9 x maxWidth, shortenPhrase returns the
\* first of Vowel Removal, Morpheme Substitution and Combined (each computed
\* from the transliterated phrase) whose width is <= maxWidth (100%), and the
\* Aggressive Truncation output when none of the three fits.
C1_FirstFittingStage ==
    (ShortenDone /\ call.isSong) =>
        LET s == StagesOf(call)
        IN  Triggered(s.working) =>
                ret = IF WidthOf(s.stage1) <= call.maxWidth THEN s.stage1
                      ELSE IF WidthOf(s.stage2) <= call.maxWidth THEN s.stage2
                      ELSE IF WidthOf(s.stage3) <= call.maxWidth THEN s.stage3
                      ELSE s.stage4

\* a call that returned the Combined stage because neither earlier stage fit
C1_Witness ==
    /\ ShortenDone /\ call.isSong
    /\ LET s == StagesOf(call)
       IN  /\ Triggered(s.working)
           /\ WidthOf(s.stage1) > call.maxWidth
           /\ WidthOf(s.stage2) > call.maxWidth
           /\ WidthOf(s.stage3) <= call.maxWidth
           /\ ret = s.stage3 /\ ret # s.stage1 /\ ret # s.stage2

\* C2: a song phrase whose width is <= 0.9 x maxWidth (the exact threshold
\* included) is returned transliterated and unchanged with no stage applied;
\* a wider one has the stages attempted, even when it fits 100% of maxWidth.
C2_TriggerThreshold ==
    (ShortenDone /\ call.isSong) =>
        LET s == StagesOf(call)
        IN  /\ ~Triggered(s.working) => (ret = s.working /\ console = <<>>)
            /\ Triggered(s.working) =>
                  /\ Len(console) >= 2
                  /\ console[2] = "After vowel removal"
                  /\ ret \in {s.stage1, s.stage2, s.stage3, s.stage4}
                  /\ WidthOf(s.working) <= call.maxWidth => ret = s.stage1

\* a phrase exactly at 0.9 x maxWidth, which Vowel Removal would have changed
C2_Witness ==
    /\ ShortenDone /\ call.isSong
    /\ call.maxWidth > 0
    /\ LET s == StagesOf(call)
       IN  /\ 10 * WidthOf(s.working) = 9 * call.maxWidth
           /\ s.stage1 # s.working
           /\ ret = s.working

\* C8: the string applyAggressiveShortening returns has at most
\* floor(maxWidth / width("M")) characters, separating spaces included.
C8_FitsBudget ==
    AggressiveDone =>
        Len(ret) <= totalAvailableChars(call.maxWidth, call.fontSize)

\* the characters of the retained words: the output without its separators
RenderedChars(text) == Len(SelectSeq(text, LAMBDA c : ~IsSpace(c)))

\* C9: for a fixed phrase and font size, a smaller maxWidth never makes
\* applyAggressiveShortening render more characters.
C9_MonotoneInBudget ==
    AggressiveDone =>
        \A smaller \in TextMaxWidths :
            smaller <= call.maxWidth =>
                RenderedChars(applyAggressiveShortening(call.phrase, smaller,
                                                        call.fontSize))
                    <= RenderedChars(ret)

\* a truncated output that a strictly smaller width truncates further
C9_Witness ==
    /\ AggressiveDone
    /\ RenderedChars(ret) < RenderedChars(call.phrase)
    /\ \E smaller \in TextMaxWidths :
          /\ smaller < call.maxWidth
          /\ 0 < RenderedChars(applyAggressiveShortening(call.phrase, smaller,
                                                         call.fontSize))
          /\ RenderedChars(applyAggressiveShortening(call.phrase, smaller,
                                                     call.fontSize))
                < RenderedChars(ret)

-----------------------------------------------------------------------------
(* Claims about the layout (checked under SpecLayout) *)

PlanDone == pc = "done" /\ call.op = "calculateFontSizes"
ExportDone == pc = "done" /\ call.op = "export"

\* the candidate sizes 60, 58, ..., 24
Candidates == { 600 - 20 * k : k \in 0..18 }

CountOf(setlist, Test(_, _)) ==
    Cardinality({ i \in DOMAIN setlist : Test(setlist[i], i) })

\* the estimated stacked height as the claim gives it: size x 0.3528 x 1.05
\* per entry, plus size x 0.3528 x 0.15 before every break that is not the
\* first entry, a break's size being max(16, 0.6 x size)
ClaimedHeight(setlist, size) ==
    LET breakSize == Max(160, (6 * size) \div 10)
        songs == CountOf(setlist, LAMBDA item, i : item.type = "song")
        breaks == CountOf(setlist, LAMBDA item, i : item.type = "midshow")
        gaps == CountOf(setlist,
                        LAMBDA item, i : item.type = "midshow" /\ i > 1)
    IN  songs * PtToMm(size, 105) + breaks * PtToMm(breakSize, 105)
            + gaps * PtToMm(breakSize, 15)

FitsBudget(setlist, size) == ClaimedHeight(setlist, size) <= Mm(261)

\* C3 as stated: with at most 9 songs the returned songFontSize is a
\* candidate that satisfies the height budget, and no larger candidate does.
C3_LargestFittingSize ==
    (PlanDone /\ songCountOf(call.setlist) <= 9) =>
        /\ ret.songFontSize \in Candidates
        /\ FitsBudget(call.setlist, ret.songFontSize)
        /\ \A size \in Candidates :
               size > ret.songFontSize => ~FitsBudget(call.setlist, size)

\* C3 as amended: with at most 9 songs the returned songFontSize is a
\* candidate no larger candidate of which satisfies the height budget; it
\* satisfies the budget itself whenever some candidate does, and is 24 when
\* none does.
C3_LargestFittingOrFloor ==
    (PlanDone /\ songCountOf(call.setlist) <= 9) =>
        /\ ret.songFontSize \in Candidates
        /\ \A size \in Candidates :
               size > ret.songFontSize => ~FitsBudget(call.setlist, size)
        /\ IF \E size \in Candidates : FitsBudget(call.setlist, size)
           THEN FitsBudget(call.setlist, ret.songFontSize)
           ELSE ret.songFontSize = 240

\* a plan strictly inside the candidate range: larger sizes were rejected
C3_Witness ==
    /\ PlanDone /\ songCountOf(call.setlist) <= 9
    /\ ret.songFontSize > 240 /\ ret.songFontSize < 600
    /\ FitsBudget(call.setlist, ret.songFontSize)
    /\ ~FitsBudget(call.setlist, ret.songFontSize + 20)

\* C4: midshowFontSize <= songFontSize <= 60 in every plan; with at most 9
\* songs songFontSize >= 24 and midshowFontSize >= 14; with more than 9 the
\* plan is exactly 42 and 28, whatever the number of breaks.
C4_PlanBounds ==
    PlanDone =>
        /\ ret.midshowFontSize <= ret.songFontSize
        /\ ret.songFontSize <= 600
        /\ songCountOf(call.setlist) <= 9 =>
               (ret.songFontSize >= 240 /\ ret.midshowFontSize >= 140)
        /\ songCountOf(call.setlist) > 9 =>
               (ret.songFontSize = 420 /\ ret.midshowFontSize = 280)

\* the plan of a setlist of 10 songs and some breaks
C4_Witness ==
    /\ PlanDone
    /\ songCountOf(call.setlist) = 10
    /\ Len(call.setlist) > 10
    /\ ret = [songFontSize |-> 420, midshowFontSize |-> 280]

TwelveSongs == Repeat(Song(SongTitle, 0), 12)

TwelveSongsExported ==
    ExportDone /\ call.setlist = TwelveSongs /\ call.songs = <<>>

StageTexts == SelectSeq(doc[1].stage, LAMBDA c : c.op = "text")

\* C5 as stated: the export of 12 songs with no catalog draws every song at
\* 42pt and addSetlistContent calls addPage at least once.
C5_TwelveSongsSpanTwoPages ==
    TwelveSongsExported =>
        /\ \A i \in DOMAIN StageTexts : StageTexts[i].fontSize = 420
        /\ AddPagesIn(doc[1].stage) >= 1

\* C5 as amended: the export of 12 songs with no catalog draws the 12 songs
\* at 42pt and addSetlistContent never calls addPage: the stage view is one
\* page, and the addPage of export that starts the organizer section is the
\* first of the document.
C5_TwelveSongsOnOnePage ==
    TwelveSongsExported =>
        /\ Len(StageTexts) = 12
        /\ \A i \in DOMAIN StageTexts : StageTexts[i].fontSize = 420
        /\ AddPagesIn(doc[1].stage) = 0
        /\ doc[1].addPages >= 1

\* the export of 12 songs has returned, the document saved
C5_Witness ==
    /\ TwelveSongsExported
    /\ doc # <<>> /\ doc[1].saved
    /\ Len(doc[1].stage) >= 12
    /\ windowSongs = <<>>

\* C6: with more than 9 songs no entry of the stage view is drawn at a cursor
\* position y with y + its own line height (fontSize x 0.3528 x 1.15) beyond
\* pageHeight - margin = 289.
C6_NoEntryPastPageEnd ==
    (ExportDone /\ songCountOf(call.setlist) > 9) =>
        \A i \in DOMAIN StageTexts :
            LET entry == StageTexts[i]
                y == entry.y - PtToMm(entry.fontSize, 80)
            IN  y + PtToMm(entry.fontSize, 115) <= Mm(289)

-----------------------------------------------------------------------------
(* Claims about the exporter over its life (checked under Spec) *)

OrganizerRowsDrawn == SelectSeq(doc[1].organizer, LAMBDA c : c.op = "row")

\* C7: an export called without a catalog prints every song with duration 3
\* and vibe "Standard", whatever the earlier exports were given.
C7_NoCatalogMeansDefaults ==
    (ExportDone /\ call.setlist # <<>> /\ call.songs = <<>>) =>
        /\ Len(OrganizerRowsDrawn) = Len(call.setlist)
        /\ \A i \in DOMAIN call.setlist :
               IsSong(call.setlist[i]) =>
                   /\ OrganizerRowsDrawn[i].duration = <<"3", ":", "0", "0">>
                   /\ OrganizerRowsDrawn[i].vibe = Standard

\* C10: an export of an empty setlist, with or without a catalog, leaves the
\* exporter's document (so: no new document, no draw, addPage or save) and
\* the stored catalog as they were, and returns without an error.
C10_EmptyExportIsNoOp ==
    [][(call'.op = "export" /\ call'.setlist = <<>>) =>
           (UNCHANGED <<doc, windowSongs>> /\ pc' = "done" /\ ret' = <<>>)]_vars

\* an export of an empty setlist with a catalog has returned, after an export
\* that left a document and another catalog
C10_Witness ==
    /\ ExportDone
    /\ call.setlist = <<>>
    /\ call.songs # <<>>
    /\ doc # <<>> /\ doc[1].saved
    /\ windowSongs # <<>> /\ windowSongs # call.songs

-----------------------------------------------------------------------------
(* Claims about calculateMidshowFontSize (checked under SpecMidshow) *)

MidshowSizeDone == pc = "done" /\ call.op = "calculateMidshowFontSize"

\* C11: for a base size >= 8pt the size s that calculateMidshowFontSize
\* returns has 8 <= s <= baseFontSize, and the transliterated text is no
\* wider than maxWidth at s unless s is the 8pt minimum.
C11_NeverBelow8pt ==
    MidshowSizeDone =>
        /\ 80 <= ret /\ ret <= call.fontSize
        /\ \/ getTextWidth(convertCzechCharacters(call.phrase), ret)
                  <= call.maxWidth
           \/ ret = 80

-----------------------------------------------------------------------------
(* Claims about the organizer section (checked under Spec) *)

\* the end time printed in the time column of the last table row
LastRowTime == OrganizerRowsDrawn[Len(OrganizerRowsDrawn)].time

TotalPrinted == doc[1].totals[1].totalDuration

\* C12: the end time of the last table row of an export equals the value
\* printed as Total Duration / Estimated Total Time.
C12_ClockMatchesTotal ==
    (ExportDone /\ call.setlist # <<>>) =>
        /\ Len(LastRowTime) = 2 * Len(TotalPrinted) + 3
        /\ SubSeq(LastRowTime, Len(TotalPrinted) + 1, Len(TotalPrinted) + 3)
               = <<" ", "-", " ">>
        /\ SubSeq(LastRowTime, Len(TotalPrinted) + 4, Len(LastRowTime))
               = TotalPrinted

-----------------------------------------------------------------------------
(* Claims about the single-page stage view (checked under SpecLayout) *)

SinglePageExported ==
    /\ ExportDone /\ call.setlist # <<>>
    /\ songCountOf(call.setlist) <= 9
    /\ \E size \in Candidates : FitsBudget(call.setlist, size)

\* the largest candidate size whose estimated height is within the budget
LargestFitting(setlist) ==
    CHOOSE size \in Candidates :
        /\ FitsBudget(setlist, size)
        /\ \A other \in Candidates :
               FitsBudget(setlist, other) => other <= size

\* the vertical cursor after the last entry: where the entry was drawn, less
\* the baseline offset, plus its line height (actual size x 0.3528 x 1.05)
FinalCursor ==
    LET last == StageTexts[Len(StageTexts)]
    IN  last.y - PtToMm(last.fontSize, 80) + PtToMm(last.fontSize, 105)

\* C13: with at most 9 songs and some candidate size within the height
\* budget, addSetlistContent inserts no page break, its cursor after the last
\* entry is <= pageHeight - margin = 289, and the height it stacked from
\* margin + 15 is at most the height the search estimated for its plan.
C13_SinglePageFits ==
    SinglePageExported =>
        /\ AddPagesIn(doc[1].stage) = 0
        /\ Len(StageTexts) = Len(call.setlist)
        /\ FinalCursor <= Mm(289)
        /\ FinalCursor - Mm(23)
               <= ClaimedHeight(call.setlist, LargestFitting(call.setlist))

\* a single-page export with songs below 60pt and breaks after the first
\* entry, the opening one drawn below its planned size: the stacked height is
\* strictly below the estimate
C13_Witness ==
    /\ SinglePageExported
    /\ LargestFitting(call.setlist) < 600
    /\ songCountOf(call.setlist) >= 1
    /\ Len(call.setlist) - songCountOf(call.setlist) >= 2
    /\ StageTexts[1].style = "italic"
    /\ StageTexts[1].fontSize
           < Max(160, (6 * LargestFitting(call.setlist)) \div 10)
    /\ FinalCursor - Mm(23)
           < ClaimedHeight(call.setlist, LargestFitting(call.setlist))

=============================================================================
